---- MODULE Spec2Model ----
(***************************************************************************)
(* EcoTrack server (src/index.js): the express route handlers over the     *)
(* MongoDB collections "challenges" and "userChallenges" (plus the         *)
(* read-only "events" and "tips").                                         *)
(*                                                                         *)
(* A handler is an async function: it runs without interruption up to an   *)
(* await of a database call, and other requests' database calls may run    *)
(* between two of its awaits.  One action of the model is one database     *)
(* call of one request together with the handler code that follows it up   *)
(* to the next database call or the response.  The arrival of a request    *)
(* is merged with its first database call (the code before it touches no   *)
(* shared state).  Every database call may reject (the handler's catch).   *)
(***************************************************************************)
EXTENDS Integers, Sequences, FiniteSets, TLC

\* ------------------------------------------------------------- bounds
NumClients == 2
MaxChallenges == 1
MaxLinks == 2
MaxDurationLen == 2

\* ------------------------------------------------- identifiers, values
\* A path parameter that ObjectId.isValid rejects and new ObjectId throws on.
Malformed == -1
\* A structurally valid identifier that no insertOne ever generated.
NoSuchId == 0

IsValid(id) == id >= 0

Clients == 1..NumClients
Users == {"u1", "u2"}

\* new Date() / new Date().toISOString(): an opaque timestamp.
Now == "now"
\* error.message of a rejected database call or a thrown BSONError.
ErrorMessage == "error.message"

\* A JavaScript number: an integer or NaN.
Num(n) == [type |-> "number", v |-> n]
NaN == [type |-> "NaN"]
\* JSON null.
Null == [type |-> "null"]

\* ----------------------------------------------------------- parseInt
\* The duration of a request body is a string, here a sequence of characters.
DurationChars == {"3", "0", "-", " ", "d"}
DigitValue(ch) ==
  CASE ch = "0" -> 0 [] ch = "1" -> 1 [] ch = "2" -> 2 [] ch = "3" -> 3
    [] ch = "4" -> 4 [] ch = "5" -> 5 [] ch = "6" -> 6 [] ch = "7" -> 7
    [] ch = "8" -> 8 [] ch = "9" -> 9
IsDigit(ch) == ch \in {"0", "1", "2", "3", "4", "5", "6", "7", "8", "9"}

RECURSIVE SkipWhitespace(_)
SkipWhitespace(s) ==
  IF s # <<>> /\ Head(s) = " " THEN SkipWhitespace(Tail(s)) ELSE s

\* The value of the longest prefix of digits of s, after the digits acc read so far.
RECURSIVE DigitsPrefix(_, _, _)
DigitsPrefix(s, acc, seen) ==
  IF s # <<>> /\ IsDigit(Head(s))
  THEN DigitsPrefix(Tail(s), 10 * acc + DigitValue(Head(s)), TRUE)
  ELSE IF seen THEN Num(acc) ELSE NaN

Negate(x) == IF x.type = "number" THEN Num(0 - x.v) ELSE x

\* parseInt(string): leading white space is skipped, then an optional sign, then
\* the longest run of digits; NaN when there is none.
ParseInt(str) ==
  LET s == SkipWhitespace(str) IN
  IF s # <<>> /\ Head(s) = "-" THEN Negate(DigitsPrefix(Tail(s), 0, FALSE))
  ELSE IF s # <<>> /\ Head(s) = "+" THEN DigitsPrefix(Tail(s), 0, FALSE)
  ELSE DigitsPrefix(s, 0, FALSE)

\* JSON.stringify of a number inside res.json / res.send: NaN is written as null.
ToJSONNumber(x) == IF x.type = "NaN" THEN Null ELSE x

\* res.json(document): the document as the client reads it.
ToJSON(doc) ==
  [k \in DOMAIN doc |-> IF k = "duration" THEN ToJSONNumber(doc[k]) ELSE doc[k]]

\* ------------------------------------------------------ request bodies
DurationStrings == UNION {[1..n -> DurationChars] : n \in 1..MaxDurationLen}

ChallengeFields(duration) ==
  [title |-> "Plant a Tree", category |-> "Green Living",
   description |-> "Plant one tree", duration |-> duration,
   target |-> "1 tree", impactMetric |-> "trees", createdBy |-> "admin@eco",
   startDate |-> "2025-01-01", endDate |-> "2025-01-31",
   imageUrl |-> "https://img/tree.png"]

WithParticipants(body, p) ==
  [k \in DOMAIN body \cup {"participants"} |->
     IF k = "participants" THEN p ELSE body[k]]

\* Bodies of POST /challenges: with and without a participants field.
AllChallengeBodies ==
  LET plain == {ChallengeFields(d) : d \in DurationStrings} IN
  plain \cup {WithParticipants(b, p) : b \in plain, p \in {0, 5}}

\* The bodies the concurrent specifications post.
ChallengeBodies == {ChallengeFields(<<"3", "0">>)}

\* Bodies of PATCH /challenges/:id.
UpdateBodies == {[status |-> "completed"], [participants |-> 0]}

\* Bodies of PATCH /user-challenges/:userId/:challengeId.
ProgressBodies == {[status |-> "In Progress", progress |-> 50]}

VARIABLES
  challengesCollection,      \* the documents of database.collection("challenges")
  userChallengesCollection,  \* the documents of database.collection("userChallenges")
  generated,                 \* how many challenge ObjectIds insertOne has generated
  connected,                 \* whether the database answers: a call made while it
                             \* does not rejects
  requests,                  \* per client: the handler invocation in flight, if any
  sent                       \* the responses written by the last step

vars == <<challengesCollection, userChallengesCollection, generated, connected,
          requests, sent>>
db == <<challengesCollection, userChallengesCollection, generated>>

Idle == [op |-> "idle"]
IsIdle(c) == requests[c].op = "idle"
AllIdle == \A c \in Clients : IsIdle(c)

\* ------------------------------------------------------ the collections
ChallengeIds == 1..generated
LinkIds == {l._id : l \in userChallengesCollection}
NewLinkId == MaxChallenges + Cardinality(userChallengesCollection) + 1

HasChallenge(id) == \E ch \in challengesCollection : ch._id = id
ChallengeById(id) == CHOOSE ch \in challengesCollection : ch._id = id
LinksOf(userId, id) ==
  {l \in userChallengesCollection : l.userId = userId /\ l.challengeId = id}
LinksTo(id) == {l \in userChallengesCollection : l.challengeId = id}

\* { $set: fields }: the document with the fields of the update written over it.
SetFields(doc, fields) ==
  [k \in DOMAIN doc \cup DOMAIN fields |->
     IF k \in DOMAIN fields THEN fields[k] ELSE doc[k]]

\* ---------------------------------------------------------- responses
Response(rq, status, body) == [req |-> rq, status |-> status, body |-> body]

Init ==
  /\ challengesCollection = {}
  /\ userChallengesCollection = {}
  /\ generated = 0
  /\ connected = TRUE
  /\ requests = [c \in Clients |-> Idle]
  /\ sent = <<>>

\* ------------------------------------------------ GET /challenges/:id
GetChallengeDetailsBody(id) ==
  IF ~HasChallenge(id)
  THEN [status |-> 404, body |-> [success |-> FALSE, message |-> "Challenge not found"]]
  ELSE [status |-> 200, body |-> [success |-> TRUE, data |-> ToJSON(ChallengeById(id))]]

GetChallengeDetails(c, id) ==
  LET rq == [op |-> "GET /challenges/:id", id |-> id] IN
  /\ IsIdle(c)
  /\ \/ /\ ~IsValid(id)
        /\ sent' = <<Response(rq, 400, [error |-> "Invalid ID"])>>
     \/ /\ connected
        /\ IsValid(id)
        /\ sent' = <<Response(rq, GetChallengeDetailsBody(id).status,
                              GetChallengeDetailsBody(id).body)>>
     \/ /\ ~connected
        /\ IsValid(id)
        /\ sent' = <<Response(rq, 500, [success |-> FALSE, message |-> "Server error",
                                        error |-> ErrorMessage])>>
  /\ UNCHANGED <<db, requests, connected>>

\* ---------------------------------------------------- POST /challenges
\* A create that ignores the participants of the body.
ZeroParticipants(body) == 0

\* participants || 0
ParticipantsOrZero(body) ==
  IF "participants" \in DOMAIN body /\ body.participants # 0
  THEN body.participants ELSE 0

NewChallenge(body) ==
  [title |-> body.title, category |-> body.category,
   description |-> body.description, duration |-> ParseInt(body.duration),
   target |-> body.target, participants |-> ParticipantsOrZero(body),
   impactMetric |-> body.impactMetric, createdBy |-> body.createdBy,
   startDate |-> body.startDate, endDate |-> body.endDate,
   imageUrl |-> body.imageUrl, createdDate |-> Now, status |-> "active"]

\* insertOne: the driver gives the document a fresh _id.
WithId(doc, id) == [k \in DOMAIN doc \cup {"_id"} |-> IF k = "_id" THEN id ELSE doc[k]]

PostChallenge(c, body) ==
  LET rq == [op |-> "POST /challenges", input |-> body] IN
  /\ IsIdle(c)
  /\ generated < MaxChallenges
  /\ \/ /\ connected
        /\ challengesCollection' =
             challengesCollection \cup {WithId(NewChallenge(body), generated + 1)}
        /\ generated' = generated + 1
        /\ sent' = <<Response(rq, 200, [success |-> TRUE,
                                        message |-> "Challenge added successfully",
                                        insertedId |-> generated + 1])>>
     \/ /\ ~connected
        /\ sent' = <<Response(rq, 500, [success |-> FALSE,
                                        message |-> "Failed to add challenge",
                                        error |-> ErrorMessage])>>
        /\ UNCHANGED <<challengesCollection, generated>>
  /\ UNCHANGED <<userChallengesCollection, requests, connected>>

\* ------------------------------------------- POST /challenges/join/:id
JoinRequest(id, userId) == [op |-> "POST /challenges/join/:id", id |-> id, userId |-> userId]
JoinServerError(rq) ==
  Response(rq, 500, [success |-> FALSE, message |-> "Server error", error |-> ErrorMessage])

JoinsInFlight == {c \in Clients : requests[c].op = "POST /challenges/join/:id"}
JoinsBeforeInsert == {c \in JoinsInFlight : requests[c].pc = "insertOne"}

\* An existence check that forgets the user: any link to the challenge counts.
ExistingForAnyUser(userId, id) == LinksTo(id) # {}

\* const existing = await userChallengesCollection.findOne({userId, challengeId})
Existing(userId, id) == LinksOf(userId, id) # {}

JoinChallengeFindOne(c, id, userId) ==
  LET rq == JoinRequest(id, userId) IN
  /\ IsIdle(c)
  /\ \/ /\ ~IsValid(id)
        /\ sent' = <<JoinServerError(rq)>>
        /\ UNCHANGED requests
     \/ /\ connected
        /\ IsValid(id)
        /\ Existing(userId, id)
        /\ sent' = <<Response(rq, 400, [success |-> FALSE, message |-> "Already joined"])>>
        /\ UNCHANGED requests
     \/ /\ connected
        /\ IsValid(id)
        /\ ~Existing(userId, id)
        /\ Cardinality(userChallengesCollection) + Cardinality(JoinsBeforeInsert) < MaxLinks
        /\ requests' = [requests EXCEPT ![c] =
             [op |-> rq.op, pc |-> "insertOne", id |-> id, userId |-> userId]]
        /\ sent' = <<>>
     \/ /\ ~connected
        /\ IsValid(id)
        /\ sent' = <<JoinServerError(rq)>>
        /\ UNCHANGED requests
  /\ UNCHANGED <<db, connected>>

NewUserChallenge(userId, id) ==
  [userId |-> userId, challengeId |-> id, status |-> "Not Started",
   progress |-> 0, joinDate |-> Now]

\* An insert under a unique index on (userId, challengeId).
InsertUserChallengeUnique(coll, userId, id) ==
  IF \E l \in coll : l.userId = userId /\ l.challengeId = id
  THEN coll
  ELSE coll \cup {WithId(NewUserChallenge(userId, id), NewLinkId)}

\* An insert that first looks the challenge up.
InsertUserChallengeChecked(coll, userId, id) ==
  IF HasChallenge(id)
  THEN coll \cup {WithId(NewUserChallenge(userId, id), NewLinkId)}
  ELSE coll

InsertUserChallenge(coll, userId, id) ==
  coll \cup {WithId(NewUserChallenge(userId, id), NewLinkId)}

\* The insert outside the try block: a rejection is never caught and never answered.
JoinChallengeInsertOneUncaught(c) ==
  LET r == requests[c] IN
  /\ r.op = "POST /challenges/join/:id"
  /\ r.pc = "insertOne"
  /\ \/ /\ connected
        /\ userChallengesCollection' =
             userChallengesCollection \cup {WithId(NewUserChallenge(r.userId, r.id), NewLinkId)}
        /\ requests' = [requests EXCEPT ![c].pc = "updateOne"]
     \/ /\ ~connected
        /\ requests' = [requests EXCEPT ![c].pc = "rejected"]
        /\ UNCHANGED userChallengesCollection
  /\ sent' = <<>>
  /\ UNCHANGED <<challengesCollection, generated, connected>>

JoinChallengeInsertOne(c) ==
  LET r == requests[c]
      rq == JoinRequest(r.id, r.userId) IN
  /\ r.op = "POST /challenges/join/:id"
  /\ r.pc = "insertOne"
  /\ \/ /\ connected
        /\ userChallengesCollection' =
             InsertUserChallenge(userChallengesCollection, r.userId, r.id)
        /\ requests' = [requests EXCEPT ![c].pc = "updateOne"]
        /\ sent' = <<>>
     \/ /\ ~connected
        /\ requests' = [requests EXCEPT ![c] = Idle]
        /\ sent' = <<JoinServerError(rq)>>
        /\ UNCHANGED userChallengesCollection
  /\ UNCHANGED <<challengesCollection, generated, connected>>

\* updateOne({_id}, { $inc: { participants: 1 } })
IncParticipants(coll, id) ==
  {IF ch._id = id THEN [ch EXCEPT !.participants = @ + 1] ELSE ch : ch \in coll}

JoinChallengeUpdateOne(c) ==
  LET r == requests[c]
      rq == JoinRequest(r.id, r.userId) IN
  /\ r.op = "POST /challenges/join/:id"
  /\ r.pc = "updateOne"
  /\ \/ /\ connected
        /\ challengesCollection' = IncParticipants(challengesCollection, r.id)
        /\ sent' = <<Response(rq, 200, [success |-> TRUE,
                                        message |-> "Joined challenge successfully"])>>
     \/ /\ ~connected
        /\ sent' = <<JoinServerError(rq)>>
        /\ UNCHANGED challengesCollection
  /\ requests' = [requests EXCEPT ![c] = Idle]
  /\ UNCHANGED <<userChallengesCollection, generated, connected>>

\* ------------------------- PATCH /user-challenges/:userId/:challengeId
\* A filter that forgets the user.
MatchedById(coll, userId, id) == {l \in coll : l._id = id}

\* updateOne({userId, _id}, { $set: { status, progress, updateDate } })
Matched(coll, userId, id) == {l \in coll : l.userId = userId /\ l._id = id}

SetProgress(coll, userId, id, body) ==
  {IF l \in Matched(coll, userId, id)
   THEN SetFields(l, [status |-> body.status, progress |-> body.progress,
                      updateDate |-> Now])
   ELSE l : l \in coll}

PatchUserChallenge(c, userId, id, body) ==
  LET rq == [op |-> "PATCH /user-challenges/:userId/:challengeId",
             id |-> id, userId |-> userId] IN
  /\ IsIdle(c)
  /\ \/ /\ ~IsValid(id)
        /\ sent' = <<Response(rq, 500, [success |-> FALSE, message |-> ErrorMessage])>>
        /\ UNCHANGED userChallengesCollection
     \/ /\ connected
        /\ IsValid(id)
        /\ userChallengesCollection' = SetProgress(userChallengesCollection, userId, id, body)
        /\ sent' = <<IF Matched(userChallengesCollection, userId, id) = {}
                     THEN Response(rq, 404, [success |-> FALSE,
                                             message |-> "User challenge not found"])
                     ELSE Response(rq, 200, [success |-> TRUE,
                                             message |-> "Progress updated successfully"])>>
     \/ /\ ~connected
        /\ IsValid(id)
        /\ sent' = <<Response(rq, 500, [success |-> FALSE, message |-> ErrorMessage])>>
        /\ UNCHANGED userChallengesCollection
  /\ UNCHANGED <<challengesCollection, generated, requests, connected>>

\* ----------------------------------------------- PATCH /challenges/:id
\* updateData.updatedOn = new Date(); updateOne({_id}, { $set: updateData })
UpdateChallenge(coll, id, body) ==
  {IF ch._id = id THEN SetFields(ch, SetFields(body, [updatedOn |-> Now])) ELSE ch
     : ch \in coll}

PatchChallenge(c, id, body) ==
  LET rq == [op |-> "PATCH /challenges/:id", id |-> id] IN
  /\ IsIdle(c)
  /\ \/ /\ ~IsValid(id)
        /\ sent' = <<Response(rq, 500, [success |-> FALSE,
                                        message |-> "Failed to update challenge",
                                        error |-> ErrorMessage])>>
        /\ UNCHANGED challengesCollection
     \/ /\ connected
        /\ IsValid(id)
        /\ challengesCollection' = UpdateChallenge(challengesCollection, id, body)
        /\ sent' = <<IF ~HasChallenge(id)
                     THEN Response(rq, 404, [success |-> FALSE,
                                             message |-> "Challenge not found"])
                     ELSE Response(rq, 200, [success |-> TRUE,
                                             message |-> "Challenge updated successfully"])>>
     \/ /\ ~connected
        /\ IsValid(id)
        /\ sent' = <<Response(rq, 500, [success |-> FALSE,
                                        message |-> "Failed to update challenge",
                                        error |-> ErrorMessage])>>
        /\ UNCHANGED challengesCollection
  /\ UNCHANGED <<userChallengesCollection, generated, requests, connected>>

\* ------------------------------------------ DELETE /delete/challenge/:id
DeleteOne(coll, id) == {ch \in coll : ch._id # id}

DeleteChallenge(c, id) ==
  LET rq == [op |-> "DELETE /delete/challenge/:id", id |-> id] IN
  /\ IsIdle(c)
  /\ \/ /\ ~IsValid(id)
        /\ sent' = <<Response(rq, 500, [success |-> FALSE,
                                        message |-> "Failed to delete challenge",
                                        error |-> ErrorMessage])>>
        /\ UNCHANGED challengesCollection
     \/ /\ connected
        /\ IsValid(id)
        /\ challengesCollection' = DeleteOne(challengesCollection, id)
        /\ sent' = <<IF ~HasChallenge(id)
                     THEN Response(rq, 404, [success |-> FALSE,
                                             message |-> "Challenge not found"])
                     ELSE Response(rq, 200, [success |-> TRUE,
                                             message |-> "Challenge deleted successfully"])>>
     \/ /\ ~connected
        /\ IsValid(id)
        /\ sent' = <<Response(rq, 500, [success |-> FALSE,
                                        message |-> "Failed to delete challenge",
                                        error |-> ErrorMessage])>>
        /\ UNCHANGED challengesCollection
  /\ UNCHANGED <<userChallengesCollection, generated, requests, connected>>

\* --------------------------------------------------- query operators
\* { $project: {...} }: the listed fields the document has.
Project(doc, fields) == [k \in DOMAIN doc \cap fields |-> doc[k]]

\* A collection in storage order (insertOne appends; _id grows with insertion).
RECURSIVE ToArray(_)
ToArray(coll) ==
  IF coll = {} THEN <<>>
  ELSE LET first == CHOOSE d \in coll : \A e \in coll : d._id <= e._id
       IN <<first>> \o ToArray(coll \ {first})

\* cursor.limit(n)
Limit(seq, n) == SubSeq(seq, 1, IF Len(seq) < n THEN Len(seq) ELSE n)

\* { $lookup: from challenges, localField challengeId, foreignField _id } then
\* { $unwind: "$challengeDetails" }: a link whose challenge is missing is dropped.
LookupUnwind(links) ==
  {[link |-> j[1], challengeDetails |-> j[2]] :
     j \in {p \in links \X challengesCollection : p[2]._id = p[1].challengeId}}

\* ---------------------------------------------------- GET /challenges
Searches == {"", "tree", "water"}
\* { $regex: search, $options: "i" } on the titles and searches of the model.
RegexMatches(title, search) == <<title, search>> \in {<<"Plant a Tree", "tree">>}

FindChallenges(search) ==
  IF search # ""
  THEN {ch \in challengesCollection : RegexMatches(ch.title, search)}
  ELSE challengesCollection

ListBody(docs) == [success |-> TRUE, count |-> Len(docs), data |-> docs]

GetChallenges(c, search) ==
  LET rq == [op |-> "GET /challenges", search |-> search] IN
  /\ IsIdle(c)
  /\ \/ /\ connected
        /\ sent' = <<Response(rq, 200, ListBody(ToArray(FindChallenges(search))))>>
     \/ /\ ~connected
        /\ sent' = <<Response(rq, 500, [success |-> FALSE,
                                        message |-> "Failed to fetch challenges",
                                        error |-> ErrorMessage])>>
  /\ UNCHANGED <<db, requests, connected>>

\* ------------------------------------------- GET /my-activities/:userId
ActivityView(j) ==
  [k \in DOMAIN Project(j.link, {"_id", "status", "progress", "joinDate", "updateDate"})
         \cup {"challengeDetails"} |->
     IF k = "challengeDetails"
     THEN Project(j.challengeDetails, {"title", "category", "imageUrl", "description"})
     ELSE j.link[k]]

UserActivities(userId) ==
  {ActivityView(j) : j \in LookupUnwind({l \in userChallengesCollection : l.userId = userId})}

GetMyActivities(c, userId) ==
  LET rq == [op |-> "GET /my-activities/:userId", userId |-> userId] IN
  /\ IsIdle(c)
  /\ \/ /\ connected
        /\ sent' = <<Response(rq, 200, ListBody(ToArray(UserActivities(userId))))>>
     \/ /\ ~connected
        /\ sent' = <<Response(rq, 500, [success |-> FALSE, message |-> ErrorMessage])>>
  /\ UNCHANGED <<db, requests, connected>>

\* ---------------------------- GET /user-challenges/:userId/:challengeId
UserChallengeRequest(id, userId) ==
  [op |-> "GET /user-challenges/:userId/:challengeId", id |-> id, userId |-> userId]

\* The first findOne: the link of the user with that _id.
GetUserChallengeFindActivity(c, userId, id) ==
  LET rq == UserChallengeRequest(id, userId)
      found == Matched(userChallengesCollection, userId, id) IN
  /\ IsIdle(c)
  /\ \/ /\ ~IsValid(id)
        /\ sent' = <<Response(rq, 500, [success |-> FALSE, message |-> ErrorMessage])>>
        /\ UNCHANGED requests
     \/ /\ connected
        /\ IsValid(id)
        /\ found = {}
        /\ sent' = <<Response(rq, 404, [success |-> FALSE,
                                        message |-> "User has not joined this challenge"])>>
        /\ UNCHANGED requests
     \/ /\ connected
        /\ IsValid(id)
        /\ found # {}
        /\ requests' = [requests EXCEPT ![c] =
             [op |-> rq.op, pc |-> "findOne", id |-> id, userId |-> userId,
              activity |-> CHOOSE l \in found : TRUE]]
        /\ sent' = <<>>
     \/ /\ ~connected
        /\ IsValid(id)
        /\ sent' = <<Response(rq, 500, [success |-> FALSE, message |-> ErrorMessage])>>
        /\ UNCHANGED requests
  /\ UNCHANGED <<db, connected>>

\* { ...activity, challengeDetails: challenge }; findOne gives null when none matches.
ActivityDetail(activity) ==
  [k \in DOMAIN activity \cup {"challengeDetails"} |->
     IF k = "challengeDetails"
     THEN IF HasChallenge(activity.challengeId)
          THEN ToJSON(ChallengeById(activity.challengeId)) ELSE Null
     ELSE activity[k]]

\* The second findOne: the challenge of that link.
GetUserChallengeFindChallenge(c) ==
  LET r == requests[c]
      rq == UserChallengeRequest(r.id, r.userId) IN
  /\ r.op = "GET /user-challenges/:userId/:challengeId"
  /\ r.pc = "findOne"
  /\ \/ /\ connected
        /\ sent' = <<Response(rq, 200, [success |-> TRUE, data |-> ActivityDetail(r.activity)])>>
     \/ /\ ~connected
        /\ sent' = <<Response(rq, 500, [success |-> FALSE, message |-> ErrorMessage])>>
  /\ requests' = [requests EXCEPT ![c] = Idle]
  /\ UNCHANGED <<db, connected>>

\* ------------------------------------------- GET /joined/challenges/:id
JoinedView(j) ==
  [k \in DOMAIN Project(j.link, {"_id", "userId", "status", "progress", "joinDate"})
         \cup {"challengeDetails"} |->
     IF k = "challengeDetails"
     THEN ToJSON(Project(j.challengeDetails,
            {"_id", "title", "category", "description", "duration", "target",
             "impactMetric", "startDate", "endDate", "imageUrl", "updatedOn"}))
     ELSE j.link[k]]

JoinedChallenge(id) ==
  {JoinedView(j) : j \in LookupUnwind({l \in userChallengesCollection : l._id = id})}

GetJoinedChallenge(c, id) ==
  LET rq == [op |-> "GET /joined/challenges/:id", id |-> id]
      failed == Response(rq, 500, [success |-> FALSE,
                                   message |-> "Failed to fetch joined challenge",
                                   error |-> ErrorMessage]) IN
  /\ IsIdle(c)
  /\ \/ /\ ~IsValid(id)
        /\ sent' = <<failed>>
     \/ /\ connected
        /\ IsValid(id)
        /\ sent' = <<IF JoinedChallenge(id) = {}
                     THEN Response(rq, 404, [success |-> FALSE,
                                             message |-> "Joined challenge not found"])
                     ELSE Response(rq, 200, [success |-> TRUE,
                                             data |-> CHOOSE v \in JoinedChallenge(id) : TRUE])>>
     \/ /\ ~connected
        /\ IsValid(id)
        /\ sent' = <<failed>>
  /\ UNCHANGED <<db, requests, connected>>

\* -------------------------------------------- GET /api/challenges/stats
WeeklyImpact == 20

StatsRequest == [op |-> "GET /api/challenges/stats"]
StatsError ==
  Response(StatsRequest, 500, [success |-> FALSE,
                               message |-> "Failed to fetch challenge stats",
                               error |-> ErrorMessage])

\* const totalChallenges = await challengesCollection.countDocuments()
GetStatsCount(c) ==
  /\ IsIdle(c)
  /\ \/ /\ connected
        /\ requests' = [requests EXCEPT ![c] =
             [op |-> StatsRequest.op, pc |-> "aggregate",
              totalChallenges |-> Cardinality(challengesCollection)]]
        /\ sent' = <<>>
     \/ /\ ~connected
        /\ sent' = <<StatsError>>
        /\ UNCHANGED requests
  /\ UNCHANGED <<db, connected>>

\* { $group: { _id: null, totalParticipants: { $sum: { $ifNull: ["$participants", 0] } } } }
RECURSIVE SumParticipants(_)
SumParticipants(coll) ==
  IF coll = {} THEN 0
  ELSE LET ch == CHOOSE x \in coll : TRUE
       IN (IF "participants" \in DOMAIN ch THEN ch.participants ELSE 0)
          + SumParticipants(coll \ {ch})

GetStatsAggregate(c) ==
  LET r == requests[c] IN
  /\ r.op = "GET /api/challenges/stats"
  /\ r.pc = "aggregate"
  /\ \/ /\ connected
        /\ sent' = <<Response(StatsRequest, 200,
                      [success |-> TRUE,
                       data |-> [totalParticipants |-> SumParticipants(challengesCollection),
                                 totalChallenges |-> r.totalChallenges,
                                 weeklyImpact |-> WeeklyImpact]])>>
     \/ /\ ~connected
        /\ sent' = <<StatsError>>
  /\ requests' = [requests EXCEPT ![c] = Idle]
  /\ UNCHANGED <<db, connected>>

\* ------------------------------- GET /events, /tips, /recent/challenges
EventsLimit == 6
TipsLimit == 5
RecentLimit == 6

\* The read-only collections: no handler writes them.  Dates are day numbers.
eventsCollection == {[_id |-> 1, title |-> "Beach cleanup", date |-> 12],
                     [_id |-> 2, title |-> "Tree walk", date |-> 5]}
tipsCollection == {[_id |-> 1, tip |-> "Carry a bottle", createdAt |-> 3],
                   [_id |-> 2, tip |-> "Cycle to work", createdAt |-> 8]}

\* find().sort({ date: 1 })
RECURSIVE SortByDateAscending(_)
SortByDateAscending(coll) ==
  IF coll = {} THEN <<>>
  ELSE LET first == CHOOSE d \in coll : \A e \in coll : d.date <= e.date
       IN <<first>> \o SortByDateAscending(coll \ {first})

\* find().sort({ createdAt: -1 })
RECURSIVE SortByCreatedAtDescending(_)
SortByCreatedAtDescending(coll) ==
  IF coll = {} THEN <<>>
  ELSE LET first == CHOOSE d \in coll : \A e \in coll : d.createdAt >= e.createdAt
       IN <<first>> \o SortByCreatedAtDescending(coll \ {first})

\* find().sort({ createdDate: -1 }): every createdDate of the model is the same
\* opaque timestamp, and equal keys keep their storage order.
SortByCreatedDateDescending(coll) == ToArray(coll)

GetEvents(c) ==
  LET rq == [op |-> "GET /events"] IN
  /\ IsIdle(c)
  /\ \/ /\ connected
        /\ sent' = <<Response(rq, 200,
                      ListBody(Limit(SortByDateAscending(eventsCollection), EventsLimit)))>>
     \/ /\ ~connected
        /\ sent' = <<Response(rq, 500, [success |-> FALSE, message |-> "Failed to fetch events",
                                        error |-> ErrorMessage])>>
  /\ UNCHANGED <<db, requests, connected>>

GetTips(c) ==
  LET rq == [op |-> "GET /tips"] IN
  /\ IsIdle(c)
  /\ \/ /\ connected
        /\ sent' = <<Response(rq, 200,
                      ListBody(Limit(SortByCreatedAtDescending(tipsCollection), TipsLimit)))>>
     \/ /\ ~connected
        /\ sent' = <<Response(rq, 500, [success |-> FALSE, message |-> "Failed to fetch tips",
                                        error |-> ErrorMessage])>>
  /\ UNCHANGED <<db, requests, connected>>

GetRecentChallenges(c) ==
  LET rq == [op |-> "GET /recent/challenges"] IN
  /\ IsIdle(c)
  /\ \/ /\ connected
        /\ sent' = <<Response(rq, 200,
                      ListBody(Limit(SortByCreatedDateDescending(challengesCollection),
                                     RecentLimit)))>>
     \/ /\ ~connected
        /\ sent' = <<Response(rq, 500, [success |-> FALSE,
                                        message |-> "Failed to fetch recent challenges",
                                        error |-> ErrorMessage])>>
  /\ UNCHANGED <<db, requests, connected>>

\* ------------------------------------------------------ the database
\* The connection to the deployment is lost, or comes back: a call made while it is
\* lost rejects, and the handler's catch answers.
ConnectionLost ==
  /\ connected
  /\ connected' = FALSE
  /\ sent' = <<>>
  /\ UNCHANGED <<db, requests>>

ConnectionRestored ==
  /\ ~connected
  /\ connected' = TRUE
  /\ sent' = <<>>
  /\ UNCHANGED <<db, requests>>

Database == ConnectionLost \/ ConnectionRestored

\* ------------------------------------------------------ specifications
\* The identifiers a client may put in a path.
ChallengeParams == {Malformed, NoSuchId} \cup ChallengeIds
LinkParams == {Malformed, NoSuchId} \cup LinkIds

\* A request arrives at client connection c and runs to its first await's result.
Arrive(c, bodies, users) ==
  \/ \E id \in ChallengeParams : GetChallengeDetails(c, id)
  \/ \E body \in bodies : PostChallenge(c, body)
  \/ \E id \in ChallengeParams, userId \in users : JoinChallengeFindOne(c, id, userId)
  \/ \E id \in LinkParams, userId \in users, body \in ProgressBodies :
       PatchUserChallenge(c, userId, id, body)
  \/ \E id \in ChallengeParams, body \in UpdateBodies : PatchChallenge(c, id, body)
  \/ \E id \in ChallengeParams : DeleteChallenge(c, id)

\* A later database call of the request in flight at c returns.
Continue(c) ==
  \/ JoinChallengeInsertOne(c)
  \/ JoinChallengeUpdateOne(c)

Next == Database \/ \E c \in Clients : Arrive(c, ChallengeBodies, Users) \/ Continue(c)
Spec == Init /\ [][Next]_vars

\* Requests run one at a time: each completes before the next starts.
NextSeq ==
  Database \/ \E c \in Clients : (AllIdle /\ Arrive(c, ChallengeBodies, Users)) \/ Continue(c)
SpecSeq == Init /\ [][NextSeq]_vars

\* POST /challenges over every body of the model, then GET /challenges/:id.
NextCreate ==
  \/ Database
  \/ \E c \in Clients :
       \/ \E body \in AllChallengeBodies : PostChallenge(c, body)
       \/ \E id \in ChallengeParams : GetChallengeDetails(c, id)
SpecCreate == Init /\ [][NextCreate]_vars

\* Every route of the server.
ArriveRead(c, users) ==
  \/ \E search \in Searches : GetChallenges(c, search)
  \/ \E userId \in users : GetMyActivities(c, userId)
  \/ \E id \in LinkParams, userId \in users : GetUserChallengeFindActivity(c, userId, id)
  \/ \E id \in LinkParams : GetJoinedChallenge(c, id)
  \/ GetStatsCount(c)
  \/ GetEvents(c)
  \/ GetTips(c)
  \/ GetRecentChallenges(c)

ContinueRead(c) ==
  \/ GetUserChallengeFindChallenge(c)
  \/ GetStatsAggregate(c)

Step(c) == Continue(c) \/ ContinueRead(c)

\* The user of the all-routes specifications.
OneUser == {"u1"}

NextAll ==
  \/ Database
  \/ \E c \in Clients :
       Arrive(c, ChallengeBodies, OneUser) \/ ArriveRead(c, OneUser) \/ Step(c)
SpecAll == Init /\ [][NextAll]_vars

\* The driver settles every database call (it resolves or, after its timeouts,
\* rejects), and the event loop then runs the handler's continuation.
FairSpec == SpecAll /\ \A c \in Clients : WF_vars(Step(c))

\* ============================================================ properties
JoinOp == "POST /challenges/join/:id"
ProgressOp == "PATCH /user-challenges/:userId/:challengeId"
HasId(r) == "id" \in DOMAIN r.req
MalformedRequest(r) == HasId(r) /\ ~IsValid(r.req.id)

\* The clients whose request ends, begins or moves on in a step.
Ended == {c \in Clients : ~IsIdle(c) /\ requests'[c] = Idle}
Began == {c \in Clients : IsIdle(c) /\ requests'[c] # Idle}
Moved == {c \in Clients : ~IsIdle(c) /\ requests'[c] # Idle /\ requests'[c] # requests[c]}
HandlerStep == connected' = connected /\ <<requests, sent, db>>' # <<requests, sent, db>>

\* ------------------------------------------------------------------ C7
\* A step of a handler involves one request; it writes one response exactly when
\* the request ends with it, and none while the request goes on.
OneResponsePerRequest ==
  HandlerStep =>
    /\ Cardinality(Ended \cup Began \cup Moved) <= 1
    /\ Len(sent') <= 1
    /\ Ended # {} => Len(sent') = 1 /\ \A c \in Ended : sent'[1].req.op = requests[c].op
    /\ Began \cup Moved # {} => Len(sent') = 0
    /\ requests' = requests => Len(sent') = 1

\* A database call made while the database does not answer ends the request with
\* status 500 (a malformed identifier is answered before any call is made), writes
\* nothing, and no request is begun or taken further by it: nothing is retried.
FailedCallAnswered500 ==
  (HandlerStep /\ ~connected) =>
    /\ Len(sent') = 1
    /\ sent'[1].status = 500 \/ (sent'[1].status = 400 /\ MalformedRequest(sent'[1]))
    /\ Began \cup Moved = {}
    /\ db' = db

\* While the database answers, whatever failed before, no request is answered 500
\* but one whose identifier is malformed.
ServedWhenConnected ==
  (HandlerStep /\ connected /\ Len(sent') = 1 /\ sent'[1].status = 500)
    => MalformedRequest(sent'[1])

\* C7: every request in flight is eventually answered, with exactly one response,
\* under every interleaving and also when its database calls fail; a failed call is
\* answered 500, nothing is retried, and later requests are served.
C7_EveryRequestAnswered ==
  /\ \A c \in Clients : [](~IsIdle(c) => <>IsIdle(c))
  /\ [][OneResponsePerRequest /\ FailedCallAnswered500 /\ ServedWhenConnected]_vars

\* A join whose insertOne was rejected is answered 500 while another request is in
\* flight.
C7_Witness ==
  /\ Len(sent) = 1
  /\ sent[1].status = 500
  /\ sent[1].req.op = JoinOp
  /\ IsValid(sent[1].req.id)
  /\ ~connected
  /\ \E c \in Clients : ~IsIdle(c)

\* ------------------------------------------------------------------ C1
Pairs == Users \X ({NoSuchId} \cup ChallengeIds)

\* What one step leaves of a challenge: the document but for its participants.
SameButParticipants(ch, ch2) ==
  /\ DOMAIN ch2 = DOMAIN ch
  /\ \A k \in DOMAIN ch \ {"participants"} : ch2[k] = ch[k]

\* The participants of challenge id grow by exactly 1 and nothing else changes.
IncrementedOnce(id) ==
  /\ Cardinality(challengesCollection') = Cardinality(challengesCollection)
  /\ \A ch \in challengesCollection :
       \E ch2 \in challengesCollection' :
         /\ SameButParticipants(ch, ch2)
         /\ ch2.participants = ch.participants + (IF ch._id = id THEN 1 ELSE 0)

\* No step removes a link or changes whose it is.
LinksKept ==
  \A l \in userChallengesCollection :
    \E l2 \in userChallengesCollection' :
      l2._id = l._id /\ l2.userId = l.userId /\ l2.challengeId = l.challengeId

\* With requests one at a time there is at most one link per pair; the join in
\* flight found none and has inserted at most its own.
OneLinkPerPair ==
  /\ \A p \in Pairs : Cardinality(LinksOf(p[1], p[2])) <= 1
  /\ \A c \in JoinsInFlight :
       Cardinality(LinksOf(requests[c].userId, requests[c].id))
         = (IF requests[c].pc = "insertOne" THEN 0 ELSE 1)

JoinSteps ==
  /\ LinksKept
     \* the existence check lets a join go on only when the pair has no link
  /\ \A c \in Began :
       requests'[c].op = JoinOp =>
         /\ LinksOf(requests'[c].userId, requests'[c].id) = {}
         /\ db' = db
     \* the insert adds one link, "Not Started" with progress 0, for the pair
  /\ \A c \in Moved :
       requests[c].op = JoinOp =>
         LET added == userChallengesCollection' \ userChallengesCollection IN
         /\ userChallengesCollection \subseteq userChallengesCollection'
         /\ Cardinality(added) = 1
         /\ \A l \in added :
              /\ l.userId = requests[c].userId
              /\ l.challengeId = requests[c].id
              /\ l.status = "Not Started"
              /\ l.progress = 0
         /\ challengesCollection' = challengesCollection
     \* the answers
  /\ (HandlerStep /\ Len(sent') = 1 /\ sent'[1].req.op = JoinOp /\ IsValid(sent'[1].req.id)) =>
       LET r == sent'[1]
           mine == LinksOf(r.req.userId, r.req.id) IN
       /\ r.status \in {200, 400, 500}
       /\ r.status = 500 => ~connected
       /\ r.status = 200 =>
            /\ r.body.success = TRUE
            /\ Cardinality(mine) = 1
            /\ userChallengesCollection' = userChallengesCollection
            /\ IncrementedOnce(r.req.id)
       /\ r.status = 400 =>
            /\ r.body = [success |-> FALSE, message |-> "Already joined"]
            /\ mine # {}
            /\ db' = db

\* C1: with join requests one at a time, identifiers well formed and the database
\* answering, the first join of a pair (no link yet) is answered success:true, inserts
\* one link "Not Started" with progress 0 and increments that challenge's participants
\* by exactly 1; every later join of the pair (the link is there, and stays) is answered
\* 400 "Already joined" and changes no link and no participants.
C1_JoinOnceThenConflict == []OneLinkPerPair /\ [][JoinSteps]_vars

\* A second join of a pair has just been answered "Already joined": the pair has its
\* one link and the challenge its one participant.
C1_Witness ==
  /\ Len(sent) = 1
  /\ sent[1].req.op = JoinOp
  /\ sent[1].status = 400
  /\ Cardinality(LinksOf(sent[1].req.userId, sent[1].req.id)) = 1
  /\ HasChallenge(sent[1].req.id)
  /\ ChallengeById(sent[1].req.id).participants = 1

\* ------------------------------------------------------------------ C2
\* The insert of a join is not conditional on the pair having no link: when two
\* joins of a pair have both passed the existence check, each insert adds a link and
\* each increment adds 1 and is answered success:true.
RacingJoinSteps ==
  /\ \A c \in Moved :
       requests[c].op = JoinOp =>
         Cardinality({l \in userChallengesCollection' :
                        l.userId = requests[c].userId /\ l.challengeId = requests[c].id})
           = Cardinality(LinksOf(requests[c].userId, requests[c].id)) + 1
  /\ \A c \in Ended :
       (requests[c].op = JoinOp /\ requests[c].pc = "updateOne" /\ connected) =>
         /\ sent'[1].status = 200
         /\ sent'[1].body.success = TRUE
         /\ IncrementedOnce(requests[c].id)

\* C2: two concurrent joins of one pair can both pass the existence check before
\* either inserts; both then insert and increment and are answered success:true, so
\* two links of the pair and participants incremented twice are reachable.
C2_RacingJoinsBothInsert == [][RacingJoinSteps]_vars

\* Two links of one pair, the challenge counting two participants, the last of the
\* two joins just answered success:true.
C2_Witness ==
  /\ AllIdle
  /\ Len(sent) = 1
  /\ sent[1].req.op = JoinOp
  /\ sent[1].status = 200
  /\ sent[1].body.success = TRUE
  /\ Cardinality(LinksOf(sent[1].req.userId, sent[1].req.id)) = 2
  /\ HasChallenge(sent[1].req.id)
  /\ ChallengeById(sent[1].req.id).participants = 2
  /\ "updatedOn" \notin DOMAIN ChallengeById(sent[1].req.id)

\* ------------------------------------------------------------------ C3
PostOp == "POST /challenges"
Posted == Len(sent) = 1 /\ sent[1].req.op = PostOp /\ sent[1].status = 200
PassedThrough ==
  {"title", "category", "description", "target", "impactMetric", "createdBy",
   "startDate", "endDate", "imageUrl"}

\* What GET /challenges/:insertedId answers right after the POST.
ReadBack == GetChallengeDetailsBody(sent[1].body.insertedId)

ReadBackFields(input, data) ==
  /\ \A k \in PassedThrough : data[k] = input[k]
  /\ data.status = "active"
  /\ "createdDate" \in DOMAIN data

\* C3 as stated: the record read back has the input's fields, duration the integer
\* coercion of the input's, participants 0, status "active" and createdDate set.
C3_Original ==
  Posted =>
    /\ ReadBack.status = 200
    /\ ReadBackFields(sent[1].req.input, ReadBack.body.data)
    /\ ReadBack.body.data.duration = ParseInt(sent[1].req.input.duration)
    /\ ReadBack.body.data.participants = 0

\* C3 amended: participants is the input's participants when that is given and not
\* 0, and 0 otherwise; duration is parseInt of the input's when that is a number
\* and null when it is NaN (the JSON of NaN).
C3_CreateThenGet ==
  Posted =>
    LET input == sent[1].req.input
        data == ReadBack.body.data IN
    /\ ReadBack.status = 200
    /\ ReadBackFields(input, data)
    /\ data.duration = (IF ParseInt(input.duration) = NaN THEN Null
                        ELSE ParseInt(input.duration))
    /\ data.participants = (IF "participants" \in DOMAIN input /\ input.participants # 0
                            THEN input.participants ELSE 0)

\* A challenge posted with duration "30" and participants 5 is read back with
\* duration 30 and participants 5.
C3_Witness ==
  /\ Posted
  /\ sent[1].req.input.duration = <<"3", "0">>
  /\ "participants" \in DOMAIN sent[1].req.input
  /\ sent[1].req.input.participants = 5
  /\ ReadBack.body.data.duration = Num(30)
  /\ ReadBack.body.data.participants = 5

\* ------------------------------------------------------------------ C4
\* C4: a request whose identifier is malformed is answered 400, never 500.
C4_Malformed400 ==
  \A i \in 1..Len(sent) : MalformedRequest(sent[i]) => sent[i].status = 400

\* ------------------------------------------------------------------ C5
\* C5: every response carries a boolean success, true on 200 and false on 400, 404
\* and 500.
C5_SuccessInEveryResponse ==
  \A i \in 1..Len(sent) :
    /\ "success" \in DOMAIN sent[i].body
    /\ sent[i].body.success = (sent[i].status = 200)

\* ------------------------------------------------------------------ C6
\* C6: the participants of a challenge change only by the increment of a join, by
\* exactly 1; PATCH /challenges/:id never changes them and nothing decreases them.
ParticipantsOnlyIncremented ==
  \A ch \in challengesCollection :
    \A ch2 \in challengesCollection' :
      (ch2._id = ch._id /\ ch2.participants # ch.participants) =>
        /\ ch2.participants = ch.participants + 1
        /\ \E c \in Ended : requests[c].op = JoinOp /\ requests[c].pc = "updateOne"
C6_ParticipantsOnlyByJoin == [][ParticipantsOnlyIncremented]_vars

\* ------------------------------------------------------------------ C8
\* C8: with no join in flight, a challenge created with participants 0 and never
\* written by PATCH /challenges/:id (which stamps updatedOn) counts as many
\* participants as there are links to it.
C8_ParticipantsCountLinks ==
  JoinsInFlight = {} =>
    \A ch \in challengesCollection :
      "updatedOn" \notin DOMAIN ch =>
        ch.participants = Cardinality(LinksTo(ch._id))

\* ------------------------------------------------------------------ C9
\* The links a step changes, and what it changes of them.
ChangedLinks == {l \in userChallengesCollection : l \notin userChallengesCollection'}
OnlyProgressSet(l, l2) ==
  /\ DOMAIN l2 = DOMAIN l \cup {"updateDate"}
  /\ \A k \in DOMAIN l \ {"status", "progress", "updateDate"} : l2[k] = l[k]

ProgressSteps ==
  (HandlerStep /\ Len(sent') = 1 /\ sent'[1].req.op = ProgressOp) =>
    LET r == sent'[1]
        both == {l \in userChallengesCollection :
                   l._id = r.req.id /\ l.userId = r.req.userId} IN
    /\ challengesCollection' = challengesCollection
    /\ generated' = generated
    /\ Cardinality(userChallengesCollection') = Cardinality(userChallengesCollection)
    /\ Cardinality(ChangedLinks) <= 1
    /\ ChangedLinks \subseteq both
    /\ \A l \in ChangedLinks :
         \E l2 \in userChallengesCollection' : l2._id = l._id /\ OnlyProgressSet(l, l2)
    /\ r.status \in {200, 404, 500}
    /\ r.status = 200 => both # {}
    /\ r.status # 200 => userChallengesCollection' = userChallengesCollection
    /\ (both = {} /\ IsValid(r.req.id) /\ connected) => r.status = 404
    /\ r.status = 404 => both = {}

\* C9: PATCH /user-challenges/:userId/:linkId changes at most the one link with that
\* identifier and that userId, and of it only status, progress and updateDate; when
\* no link has both (the identifier well formed, the database answering) the answer is
\* 404 and no link changes; no challenge changes in either case.
C9_ProgressFrame == [][ProgressSteps]_vars

\* A PATCH naming the link of another user has just been answered 404, after a
\* PATCH by its owner set a link "In Progress".
C9_Witness ==
  /\ Len(sent) = 1
  /\ sent[1].req.op = ProgressOp
  /\ sent[1].status = 404
  /\ \E l \in userChallengesCollection :
       l._id = sent[1].req.id /\ l.userId # sent[1].req.userId
  /\ \E l \in userChallengesCollection : l.status = "In Progress"

\* ----------------------------------------------------------------- C10
\* C10 as stated: every link's challengeId is that of an existing challenge.
C10_Original ==
  \A l \in userChallengesCollection : HasChallenge(l.challengeId)

ValidReferences ==
  \A l \in userChallengesCollection : IsValid(l.challengeId)

DanglingAllowed ==
  /\ LinksKept
     \* the insert of a join does not depend on the challenge existing
  /\ \A c \in Moved :
       (requests[c].op = JoinOp /\ ~HasChallenge(requests[c].id)) =>
         \E l \in userChallengesCollection' \ userChallengesCollection :
           l.challengeId = requests[c].id
     \* nor does its answer: the increment matches nothing
  /\ \A c \in Ended :
       (requests[c].op = JoinOp /\ requests[c].pc = "updateOne" /\ connected
          /\ ~HasChallenge(requests[c].id)) =>
         /\ sent'[1].status = 200
         /\ sent'[1].body.success = TRUE
         /\ challengesCollection' = challengesCollection

\* C10 amended: every link's challengeId is a structurally valid identifier, not
\* necessarily that of an existing challenge: no step removes a link, so deleting a
\* challenge leaves the links to it, and a join naming a valid identifier of no
\* existing challenge inserts its link and is answered success:true.
C10_ValidButDangling == []ValidReferences /\ [][DanglingAllowed]_vars

\* A challenge has just been deleted and a link still refers to it.
C10_Witness ==
  /\ Len(sent) = 1
  /\ sent[1].req.op = "DELETE /delete/challenge/:id"
  /\ sent[1].status = 200
  /\ LinksTo(sent[1].req.id) # {}
  /\ ~HasChallenge(sent[1].req.id)

====
